---- MODULE Spec2Model ----
(***************************************************************************)
(* Emissions ingestion and computation core of Carbon Aegis                *)
(* (src/utils/ai_emission_mapper.py): detect_column_types,                 *)
(* map_to_emission_categories, load_emission_factors, calculate_emissions. *)
(*                                                                         *)
(* Numbers.  Amounts are held in tenths (2.5 kg is 25), emission factors   *)
(* in hundredths (0.48 is 48), GWP values as the whole numbers of the      *)
(* catalog, and emissions in units of 10^-4 (5.22 is 52200).  With these   *)
(* units amount * factor and amount * GWP / 1000 are exact integers.       *)
(* Strings are TLA+ strings; lower() and the Python `in` test are computed *)
(* character by character.                                                 *)
(***************************************************************************)
EXTENDS Integers, Sequences, FiniteSets, TLC

VARIABLES df, column_mappings, structured_data, emission_factors, results, pc, pos,
          ai_results, uploaded_file, tmp_files, dashboard

vars == <<df, column_mappings, structured_data, emission_factors, results, pc, pos,
          ai_results, uploaded_file, tmp_files, dashboard>>

\* what read_excel_file works on: the upload and the files in the temporary
\* directory
file_vars == <<uploaded_file, tmp_files>>

\* what the import does not touch: file_vars, and the module whose
\* calculate_emissions a dashboard calls
side_vars == <<file_vars, dashboard>>

(***************************************************************************)
(* Strings                                                                 *)
(***************************************************************************)
UpperChars == "ABCDEFGHIJKLMNOPQRSTUVWXYZ"

LowerChars == "abcdefghijklmnopqrstuvwxyz"

Digits == {"0", "1", "2", "3", "4", "5", "6", "7", "8", "9"}

\* the lowercase letter of each uppercase letter
UpperToLower ==
    [c \in {SubSeq(UpperChars, i, i) : i \in 1..Len(UpperChars)} |->
        LET i == CHOOSE j \in 1..Len(UpperChars) : SubSeq(UpperChars, j, j) = c
        IN  SubSeq(LowerChars, i, i)]

LowerChar(c) == IF c \in DOMAIN UpperToLower THEN UpperToLower[c] ELSE c

RECURSIVE lower(_)
\* str.lower()
lower(s) ==
    IF Len(s) = 0 THEN ""
    ELSE LowerChar(SubSeq(s, 1, 1)) \o lower(SubSeq(s, 2, Len(s)))

\* Python's `needle in hay` on strings
Contains(hay, needle) ==
    \E i \in 1..(Len(hay) - Len(needle) + 1) :
        SubSeq(hay, i, i + Len(needle) - 1) = needle

\* any(keyword in text for keyword in keywords)
AnyKeyword(text, keywords) == \E k \in keywords : Contains(text, k)

(***************************************************************************)
(* Cells of the table, roles and scopes                                    *)
(***************************************************************************)
\* None / NaN
Null == [t |-> "null"]

\* a numeric cell, in tenths
Num(n) == [t |-> "num", n |-> n]

\* a string cell
Str(s) == [t |-> "str", s |-> s]

\* pd.notna(value)
notna(cell) == cell.t # "null"

\* isinstance(value, str)
IsStr(v) == v.t = "str"

\* the flag stored under the kind key of the data dictionary
True == [t |-> "bool"]

\* the scope hint None
NoScope == 0

Kinds == {"fuel", "electricity", "transport", "waste", "water", "refrigerant"}

Roles == Kinds \cup {"amount", "unit", "date", "category", "location", "notes",
                     "ignore", "unknown"}

Scopes == {1, 2, 3}

ScopeHints == Scopes \cup {NoScope}

\* f'scope{scope}'
scope_key(scope) ==
    CASE scope = 1 -> "scope1" [] scope = 2 -> "scope2" [] scope = 3 -> "scope3"

ScopeKeys == <<"scope1", "scope2", "scope3">>

get_scope_for_category(category) ==
    CASE category \in {"fuel", "refrigerant"} -> 1
      [] category = "electricity" -> 2
      [] category \in {"transport", "waste", "water"} -> 3
      [] OTHER -> NoScope

(***************************************************************************)
(* The table: column names and rows of cells                               *)
(***************************************************************************)
NCols(table) == Len(table.columns)

NRows(table) == Len(table.rows)

\* df[column]: the cells of column c, top to bottom
Column(table, c) == [r \in 1..NRows(table) |-> table.rows[r][c]]

\* column.dropna()
dropna(cells) == SelectSeq(cells, notna)

\* column.head(n)
head(cells, n) == SubSeq(cells, 1, IF Len(cells) < n THEN Len(cells) ELSE n)

\* column.empty or column.isna().all()
IsAllNa(cells) == \A r \in 1..Len(cells) : ~notna(cells[r])

\* pd.api.types.is_numeric_dtype(column): a column of numbers only; one None
\* (read_excel_file replaces NaN by None) makes the column an object column
is_numeric_dtype(cells) == Len(cells) > 0 /\ \A r \in 1..Len(cells) : cells[r].t = "num"

\* pd.api.types.is_string_dtype(column): object columns count as string columns
is_string_dtype(cells) == ~is_numeric_dtype(cells)

\* str(value) of a cell, lowercased; numbers print as digits and never hold a
\* keyword of the tables below
StrLower(cell) == IF cell.t = "str" THEN lower(cell.s) ELSE ""

(***************************************************************************)
(* detect_column_types                                                     *)
(***************************************************************************)
\* the regular expressions of detect_column_types, in dictionary order; each
\* is an alternation of literals, except r-\d+ of 'refrigerant'
patterns == <<
    [category |-> "fuel", words |-> {"fuel", "diesel", "gasoline", "petrol", "gas", "oil",
        "litre", "liter", "gallon", "combustion", "fleet", "vehicle fuel", "natural gas",
        "lpg", "propane", "biodiesel"}],
    [category |-> "electricity", words |-> {"electric", "energy", "kwh", "mwh", "power",
        "consumption", "generation", "grid", "renewable", "solar", "wind", "hydroelectric"}],
    [category |-> "transport", words |-> {"travel", "transport", "vehicle", "flight",
        "distance", "km", "mile", "commute", "business travel", "train", "bus", "taxi",
        "airplane", "ship", "ferry", "logistics"}],
    [category |-> "waste", words |-> {"waste", "landfill", "recycl", "compost", "garbage",
        "trash", "disposal", "incineration", "hazardous", "scrap", "sewage"}],
    [category |-> "water", words |-> {"water", "m3", "cubic", "consumption", "treatment",
        "wastewater", "effluent", "discharge", "irrigation", "potable"}],
    [category |-> "refrigerant", words |-> {"refrigerant", "coolant", "air condition", "hfc",
        "leak", "fugitive", "cooling", "hvac", "chiller"}],
    [category |-> "amount", words |-> {"amount", "quantity", "volume", "weight", "total",
        "consumption", "usage", "value", "count", "number", "sum"}],
    [category |-> "unit", words |-> {"unit", "measure", "uom", "metric", "kwh", "kg", "ton",
        "liter", "gallon", "km", "mile", "m3"}],
    [category |-> "date", words |-> {"date", "time", "period", "month", "year", "quarter",
        "week", "day", "fiscal", "calendar", "report"}],
    [category |-> "category", words |-> {"category", "type", "class", "scope",
        "classification", "group", "source", "activity"}],
    [category |-> "location", words |-> {"location", "site", "facility", "building", "office",
        "plant", "region", "country", "city", "address", "geography"}],
    [category |-> "notes", words |-> {"note", "comment", "description", "detail",
        "additional", "info", "remark"}] >>

\* r-\d+ : "r-" followed by a digit
MatchesRDigits(text) ==
    \E i \in 1..(Len(text) - 2) :
        SubSeq(text, i, i + 1) = "r-" /\ SubSeq(text, i + 2, i + 2) \in Digits

\* pattern.search(col_str)
PatternSearch(p, col_str) ==
    \/ AnyKeyword(col_str, patterns[p].words)
    \/ patterns[p].category = "refrigerant" /\ MatchesRDigits(col_str)

\* the canonical unit of each token, in the order detect_unit tries them
unit_tokens == <<
    <<"kwh", "kWh">>, <<"kilowatt", "kWh">>, <<"mwh", "MWh">>, <<"megawatt", "MWh">>,
    <<"kg", "kg">>, <<"kilo", "kg">>, <<"ton", "tonnes">>, <<"tonne", "tonnes">>,
    <<"liter", "litres">>, <<"litre", "litres">>, <<"gallon", "gallons">>, <<"km", "km">>,
    <<"kilometer", "km">>, <<"mile", "miles">>, <<"m3", "m³">>, <<"cubic meter", "m³">> >>

\* the name tests of detect_unit on a numeric column, first hit wins
name_units == <<
    [words |-> {"kwh", "kw-h", "kilowatt"}, unit |-> "kWh"],
    [words |-> {"mwh", "mw-h", "megawatt"}, unit |-> "MWh"],
    [words |-> {"kg", "kilo", "weight"}, unit |-> "kg"],
    [words |-> {"ton", "tonne"}, unit |-> "tonnes"],
    [words |-> {"l", "liter", "litre"}, unit |-> "litres"],
    [words |-> {"gal", "gallon"}, unit |-> "gallons"],
    [words |-> {"km", "kilometer"}, unit |-> "km"],
    [words |-> {"mi", "mile"}, unit |-> "miles"],
    [words |-> {"m3", "cubic"}, unit |-> "m³"] >>

\* the first unit token found in one lowercased value
UnitInValue(value) ==
    IF \E u \in 1..Len(unit_tokens) : Contains(value, unit_tokens[u][1])
    THEN LET u == CHOOSE j \in 1..Len(unit_tokens) :
                      /\ Contains(value, unit_tokens[j][1])
                      /\ \A k \in 1..(j - 1) : ~Contains(value, unit_tokens[k][1])
         IN  Str(unit_tokens[u][2])
    ELSE Null

detect_unit(name, cells) ==
    IF IsAllNa(cells) THEN Null
    ELSE IF is_numeric_dtype(cells)
    THEN LET col_str == lower(name)
             hits == {u \in 1..Len(name_units) : AnyKeyword(col_str, name_units[u].words)}
         IN  IF hits = {} THEN Null
             ELSE Str(name_units[CHOOSE u \in hits : \A v \in hits : u <= v].unit)
    ELSE LET sample_values == head(dropna(cells), 5)
             hits == {v \in 1..Len(sample_values) :
                          UnitInValue(StrLower(sample_values[v])) # Null}
         IN  IF hits = {} THEN Null
             ELSE UnitInValue(StrLower(sample_values[CHOOSE v \in hits : \A w \in hits : v <= w]))

\* one entry of column_types
Mapping(category, confidence, scope, unit) ==
    [category |-> category, confidence |-> confidence, scope |-> scope, unit |-> unit]

\* the mapping of a column that nothing matched
NoMatch == Mapping("unknown", 1, NoScope, Null)

\* the units infer_from_content looks for in the values, in order
content_units == <<"kwh", "mwh", "kg", "ton", "tonnes", "liter", "litre", "gallon", "km",
                   "mile", "m3">>

fuel_types == {"diesel", "gasoline", "petrol", "natural gas", "lpg", "propane"}

\* infer_from_content: the mapping inferred from the cells, NoMatch when the
\* function returns False.  Confidence is in tenths.
infer_from_content(name, cells) ==
    IF IsAllNa(cells) THEN NoMatch
    ELSE IF is_numeric_dtype(cells)
    THEN IF \A r \in 1..Len(cells) : 0 <= cells[r].n /\ cells[r].n <= 100 * 10
         THEN Mapping("amount", 6, NoScope, Str("%"))
         ELSE Mapping("amount", 7, NoScope, detect_unit(name, cells))
    ELSE LET sample_values == {StrLower(cells[r]) : r \in {q \in 1..Len(cells) : notna(cells[q])}}
             any(word) == \E v \in sample_values : Contains(v, word)
             units == {u \in 1..Len(content_units) : any(content_units[u])}
         IN  IF any("scope 1") THEN Mapping("category", 8, 1, Null)
             ELSE IF any("scope 2") THEN Mapping("category", 8, 2, Null)
             ELSE IF any("scope 3") THEN Mapping("category", 8, 3, Null)
             ELSE IF units # {}
             THEN Mapping("unit", 7, NoScope,
                          Str(content_units[CHOOSE u \in units : \A v \in units : u <= v]))
             ELSE IF \E f \in fuel_types : any(f) THEN Mapping("fuel", 8, 1, Null)
             ELSE NoMatch

\* DetectColumn asking the contents before the name
DetectColumnContentFirst(table, c) ==
    LET name == table.columns[c]
        col_str == lower(name)
        hits == {p \in 1..Len(patterns) : PatternSearch(p, col_str)}
        inferred == infer_from_content(name, Column(table, c))
    IN  IF inferred # NoMatch THEN inferred
        ELSE IF hits # {}
        THEN LET category == patterns[CHOOSE p \in hits : \A q \in hits : p <= q].category
             IN  Mapping(category, 8, get_scope_for_category(category),
                         IF category \in {"amount", "unit"}
                         THEN detect_unit(name, Column(table, c)) ELSE Null)
        ELSE NoMatch

\* the body of the loop of detect_column_types for one column, with use_ai
\* False (the default of the parameter)
DetectColumn(table, c) ==
    LET name == table.columns[c]
        col_str == lower(name)
        hits == {p \in 1..Len(patterns) : PatternSearch(p, col_str)}
    IN  IF hits # {}
        THEN LET category == patterns[CHOOSE p \in hits : \A q \in hits : p <= q].category
             IN  Mapping(category, 8, get_scope_for_category(category),
                         IF category \in {"amount", "unit"}
                         THEN detect_unit(name, Column(table, c)) ELSE Null)
        ELSE infer_from_content(name, Column(table, c))

detect_column_types(table) == [c \in 1..NCols(table) |-> DetectColumn(table, c)]

\* what analyze_column_with_ai and json.loads hand back for one column:
\* None (no key, or the call raised and line 54 swallowed it), a text that
\* json.loads rejects, or a JSON object
AiNone == [t |-> "none"]

AiUnparseable == [t |-> "text"]

\* the fields of a JSON answer as lines 174-177 read them: a category, which
\* need not be one the prompt listed; a confidence in tenths (5 when the key
\* is absent); a scope (NoScope for null) and a unit
AiCategories == {"transport", "amount", "energy"}

AiConfidences == {5, 15}

AiScopes == {NoScope, 3, 4}

AiOutcomes ==
    {AiNone, AiUnparseable} \cup
    {[t |-> "json", category |-> category, confidence |-> confidence, scope |-> scope,
      unit |-> Null] :
        category \in AiCategories, confidence \in AiConfidences, scope \in AiScopes}

\* the columns neither the name patterns nor the contents classify
Unmatched(table) == {c \in 1..NCols(table) : DetectColumn(table, c) = NoMatch}

\* DetectColumnAi keeping a mapping for the column when the adapter's answer
\* is missing or unparseable
DetectColumnAiUnguarded(table, c, outcome) ==
    IF DetectColumn(table, c) # NoMatch THEN DetectColumn(table, c)
    ELSE Mapping(IF outcome.t = "json" THEN outcome.category ELSE "category",
                 5, NoScope, Null)

\* the body of the loop of detect_column_types for one column, with use_ai
\* True and a key present: lines 164-190 after the first two steps failed
DetectColumnAi(table, c, outcome) ==
    IF DetectColumn(table, c) # NoMatch THEN DetectColumn(table, c)
    ELSE IF outcome.t = "json"
    THEN Mapping(outcome.category, outcome.confidence, outcome.scope, outcome.unit)
    ELSE NoMatch

\* detect_column_types(df, use_ai=True); outcomes gives the adapter's answer
\* for each unmatched column
detect_column_types_ai(table, outcomes) ==
    [c \in 1..NCols(table) |->
        IF c \in Unmatched(table) THEN DetectColumnAi(table, c, outcomes[c])
        ELSE DetectColumn(table, c)]

(***************************************************************************)
(* Python values: str() and float() of a cell, ordered dictionaries        *)
(***************************************************************************)
DigitChars == "0123456789"

RECURSIVE IntStr(_)
\* the decimal digits of a natural number
IntStr(n) ==
    IF n < 10 THEN SubSeq(DigitChars, n + 1, n + 1)
    ELSE IntStr(n \div 10) \o SubSeq(DigitChars, (n % 10) + 1, (n % 10) + 1)

\* str(value): a string as it is, a number (held in tenths) as Python prints
\* the float, e.g. 450.0 and 2.5
str(cell) ==
    IF cell.t = "str" THEN cell.s
    ELSE (IF cell.n < 0 THEN "-" ELSE "")
         \o IntStr((IF cell.n < 0 THEN -cell.n ELSE cell.n) \div 10) \o "."
         \o IntStr((IF cell.n < 0 THEN -cell.n ELSE cell.n) % 10)

AllDigits(s) == Len(s) > 0 /\ \A i \in 1..Len(s) : SubSeq(s, i, i) \in Digits

RECURSIVE DigitsValue(_)
DigitsValue(s) ==
    IF Len(s) = 0 THEN 0
    ELSE 10 * DigitsValue(SubSeq(s, 1, Len(s) - 1))
         + (CHOOSE d \in 0..9 : SubSeq(DigitChars, d + 1, d + 1) = SubSeq(s, Len(s), Len(s)))

\* the result of float() when it raises ValueError
ValueError == [t |-> "ValueError"]

\* the result of structured_data[scope_key] when the key is missing
KeyError == [t |-> "KeyError"]

\* float(value): a number is itself; a string is parsed when it is written as
\* digits or digits '.' digit, and raises ValueError when it holds anything
\* else (the strings of the tables below hold no other spelling of a number)
float(cell) ==
    IF cell.t = "num" THEN cell
    ELSE IF cell.t # "str" THEN ValueError
    ELSE IF AllDigits(cell.s) THEN Num(10 * DigitsValue(cell.s))
    ELSE IF /\ Len(cell.s) >= 3
            /\ SubSeq(cell.s, Len(cell.s) - 1, Len(cell.s) - 1) = "."
            /\ AllDigits(SubSeq(cell.s, 1, Len(cell.s) - 2))
            /\ AllDigits(SubSeq(cell.s, Len(cell.s), Len(cell.s)))
    THEN Num(10 * DigitsValue(SubSeq(cell.s, 1, Len(cell.s) - 2))
             + DigitsValue(SubSeq(cell.s, Len(cell.s), Len(cell.s))))
    ELSE ValueError

\* a dictionary is the sequence of its items in insertion order
HasKey(d, k) == \E i \in 1..Len(d) : d[i].k = k

\* d[k]
Get(d, k) == d[CHOOSE i \in 1..Len(d) : d[i].k = k].v

\* d[k] = v: a key already present keeps its place
DictSet(d, k, v) ==
    IF HasKey(d, k)
    THEN [i \in 1..Len(d) |-> IF d[i].k = k THEN [k |-> k, v |-> v] ELSE d[i]]
    ELSE Append(d, [k |-> k, v |-> v])

\* the least element of a non-empty set of numbers
First(S) == CHOOSE x \in S : \A y \in S : x <= y

(***************************************************************************)
(* map_to_emission_categories                                              *)
(***************************************************************************)
\* the columns of a role, in mapping order
ColumnsOf(mappings, role) == {c \in 1..Len(mappings) : mappings[c].category = role}

\* the first non-null cell of the row among the columns S, Null when none
FirstNotNa(row, S) ==
    LET T == {c \in S : notna(row[c])}
    IN  IF T = {} THEN Null ELSE row[First(T)]

\* lines 564-569: category_value
CategoryValue(row, mappings) ==
    LET cell == FirstNotNa(row, ColumnsOf(mappings, "category"))
    IN  IF notna(cell) THEN Str(lower(str(cell))) ELSE Null

\* AmountValue without the numeric test of line 574
AmountValueAnyCell(row, mappings) ==
    LET T == {c \in ColumnsOf(mappings, "amount") : notna(row[c])}
    IN  IF T = {} THEN Null ELSE float(row[First(T)])

\* lines 571-576: amount, the first amount cell that is non-null and a number
AmountValue(row, mappings) ==
    LET T == {c \in ColumnsOf(mappings, "amount") : row[c].t = "num"}
    IN  IF T = {} THEN Null ELSE float(row[First(T)])

\* lines 578-583: unit
UnitValue(row, mappings) ==
    LET cell == FirstNotNa(row, ColumnsOf(mappings, "unit"))
    IN  IF notna(cell) THEN Str(str(cell)) ELSE Null

\* no emission type found (None)
NoType == ""

RECURSIVE KindScanAnyRole(_, _, _, _, _)
\* KindScan without the test of line 590: every role line 587 lets through
\* is taken as the emission type
KindScanAnyRole(row, mappings, c, emission_type, scope) ==
    IF c > Len(mappings) THEN [type |-> emission_type, scope |-> scope]
    ELSE IF /\ mappings[c].category \notin {"amount", "unit", "date", "notes", "unknown"}
            /\ notna(row[c])
    THEN IF mappings[c].scope # NoScope
         THEN [type |-> mappings[c].category, scope |-> mappings[c].scope]
         ELSE KindScanAnyRole(row, mappings, c + 1, mappings[c].category, mappings[c].scope)
    ELSE KindScanAnyRole(row, mappings, c + 1, emission_type, scope)

RECURSIVE KindScan(_, _, _, _, _)
\* lines 585-596: the loop over the mappings from column c on, with the
\* emission type and scope found so far; it breaks at a kind column whose
\* scope hint is set
KindScan(row, mappings, c, emission_type, scope) ==
    IF c > Len(mappings) THEN [type |-> emission_type, scope |-> scope]
    ELSE IF mappings[c].category \in Kinds /\ notna(row[c])
    THEN IF mappings[c].scope # NoScope
         THEN [type |-> mappings[c].category, scope |-> mappings[c].scope]
         ELSE KindScan(row, mappings, c + 1, mappings[c].category, mappings[c].scope)
    ELSE KindScan(row, mappings, c + 1, emission_type, scope)

\* lines 600-617: the kind and default scope a category text names
KindFromText(category_value) ==
    IF AnyKeyword(category_value, {"fuel", "diesel", "gasoline", "petrol"})
    THEN [type |-> "fuel", scope |-> 1]
    ELSE IF AnyKeyword(category_value, {"refrigerant", "coolant", "r-"})
    THEN [type |-> "refrigerant", scope |-> 1]
    ELSE IF AnyKeyword(category_value, {"electric", "power", "energy"})
    THEN [type |-> "electricity", scope |-> 2]
    ELSE IF AnyKeyword(category_value, {"transport", "travel", "vehicle", "flight"})
    THEN [type |-> "transport", scope |-> 3]
    ELSE IF AnyKeyword(category_value, {"waste", "landfill", "recycl"})
    THEN [type |-> "waste", scope |-> 3]
    ELSE IF AnyKeyword(category_value, {"water"})
    THEN [type |-> "water", scope |-> 3]
    ELSE [type |-> NoType, scope |-> NoScope]

\* lines 585-617: emission type and scope from the kind columns, else from
\* the category text
TypeAndScope(row, mappings, category_value) ==
    LET found == KindScan(row, mappings, 1, NoType, NoScope)
    IN  IF found.type = NoType /\ notna(category_value) /\ category_value.s # ""
        THEN KindFromText(category_value.s)
        ELSE found

\* lines 619-626: the scope hint of the first column that has one and is
\* non-null in the row replaces the scope
ColumnScope(row, mappings, scope) ==
    LET T == {c \in 1..Len(mappings) : mappings[c].scope # NoScope /\ notna(row[c])}
    IN  IF T = {} THEN scope ELSE mappings[First(T)].scope

\* lines 628-635: 'scope N' in the category text, used when no scope is set
TextScope(category_value, scope) ==
    IF notna(category_value) /\ category_value.s # "" /\ scope = NoScope
    THEN IF Contains(category_value.s, "scope 1") THEN 1
         ELSE IF Contains(category_value.s, "scope 2") THEN 2
         ELSE IF Contains(category_value.s, "scope 3") THEN 3
         ELSE scope
    ELSE scope

\* lines 585-635: the scope of the row
RowScope(row, mappings, category_value) ==
    TextScope(category_value,
              ColumnScope(row, mappings, TypeAndScope(row, mappings, category_value).scope))

RECURSIVE CollectData(_, _, _, _)
\* lines 650-655: every non-null cell of a column whose role is not unknown
\* or ignore is stored under the role of its column
CollectData(row, mappings, c, data) ==
    IF c > Len(mappings) THEN data
    ELSE IF mappings[c].category \notin {"unknown", "ignore"} /\ notna(row[c])
    THEN CollectData(row, mappings, c + 1, DictSet(data, mappings[c].category, row[c]))
    ELSE CollectData(row, mappings, c + 1, data)

\* lines 642-655: the data dictionary of the row
RowData(row, mappings, amount, unit, category_value, emission_type) ==
    CollectData(row, mappings, 1,
        << [k |-> "amount", v |-> amount], [k |-> "unit", v |-> unit],
           [k |-> "category", v |-> category_value], [k |-> emission_type, v |-> True] >>)

\* lines 557-662: structured_data after the loop body has run for row r
\* (original_row holds the row number; its cells are df.rows[r]); KeyError
\* when line 658 finds no list under scope_key
MapRow(sd, table, mappings, r) ==
    LET row == table.rows[r]
        category_value == CategoryValue(row, mappings)
        amount == AmountValue(row, mappings)
        unit == UnitValue(row, mappings)
        emission_type == TypeAndScope(row, mappings, category_value).type
        scope == RowScope(row, mappings, category_value)
    IN  IF amount # Null /\ emission_type # NoType /\ scope # NoScope
        THEN IF scope \notin Scopes THEN KeyError
             ELSE [sd EXCEPT ![scope_key(scope)] =
                 Append(@, [type |-> emission_type,
                            data |-> RowData(row, mappings, amount, unit, category_value,
                                             emission_type),
                            original_row |-> r])]
        ELSE sd

(***************************************************************************)
(* load_emission_factors and calculate_emissions                           *)
(***************************************************************************)
\* default_factors: each kind's items in dictionary order; factors in
\* hundredths, GWP values as they are
default_factors ==
    [fuel |-> << <<"Petrol/Gasoline", 231>>, <<"Diesel", 268>>, <<"LPG/Propane", 151>>,
                 <<"Natural Gas", 202>>, <<"Biodiesel", 179>>, <<"E85 (Ethanol)", 156>> >>,
     electricity |-> << <<"UK", 19>>, <<"EU Average", 23>>, <<"US Average", 38>>,
                        <<"China", 55>>, <<"India", 71>>, <<"Global Average", 48>> >>,
     transport |-> << <<"Car (Petrol/Gasoline)", 19>>, <<"Car (Diesel)", 17>>,
                      <<"Car (Hybrid)", 11>>, <<"Car (Electric)", 5>>, <<"Bus", 10>>,
                      <<"Train", 4>>, <<"Flight (Short-haul)", 16>>,
                      <<"Flight (Medium-haul)", 14>>, <<"Flight (Long-haul)", 15>> >>,
     waste |-> << <<"Landfill (Mixed)", 45>>, <<"Recycled Paper", 2>>,
                  <<"Recycled Plastic", 4>>, <<"Recycled Glass", 1>>,
                  <<"Recycled Metal", 2>>, <<"Composted", 1>>, <<"Incineration", 22>> >>,
     water |-> << <<"Supply", 34>>, <<"Treatment", 71>>, <<"Recycled", 5>> >>,
     refrigerant |-> << <<"R-410A", 2088>>, <<"R-22", 1810>>, <<"R-134a", 1430>>,
                        <<"R-404A", 3922>>, <<"R-407C", 1774>>, <<"R-32", 675>> >>]

\* load_emission_factors(): the default factors on every path
load_emission_factors == default_factors

\* the catalog process_defra_emission_factors returns: every kind, no subtype
defra_factors == [kind \in Kinds |-> << >>]

\* per kind: the keywords that select the subtype string from the data, the
\* default subtype and the factor written into the .get() fallback
subtype_rules ==
    [fuel |-> [words |-> {"diesel", "gasoline", "petrol", "natural gas", "lpg"},
               default |-> "Diesel", fallback |-> 268],
     electricity |-> [words |-> {"uk", "us", "eu", "china", "india"},
                      default |-> "Global Average", fallback |-> 48],
     transport |-> [words |-> {"car", "bus", "train", "flight", "plane"},
                    default |-> "Car (Petrol/Gasoline)", fallback |-> 19],
     waste |-> [words |-> {"landfill", "recycled", "composted", "incineration"},
                default |-> "Landfill (Mixed)", fallback |-> 45],
     water |-> [words |-> {"supply", "treatment", "recycled"},
                default |-> "Supply", fallback |-> 34],
     refrigerant |-> [words |-> {"r-", "hfc", "refrigerant"},
                      default |-> "R-410A", fallback |-> 2088]]

\* the subtype string: the first string value of the data, in item order,
\* that holds a keyword of the kind; the default subtype when there is none
SubtypeOf(kind, data) ==
    LET T == {i \in 1..Len(data) :
                 IsStr(data[i].v) /\ AnyKeyword(lower(data[i].v.s), subtype_rules[kind].words)}
    IN  IF T = {} THEN subtype_rules[kind].default
        ELSE data[First(T)].v.s

\* the catalog keys that hold the subtype string (subtype.lower() in
\* factor_name.lower())
FactorHits(factors, subtype) ==
    {f \in 1..Len(factors) : Contains(lower(factors[f][1]), lower(subtype))}

\* emission_factors[kind].get(default, fallback)
GetDefault(factors, kind) ==
    LET T == {f \in 1..Len(factors) : factors[f][1] = subtype_rules[kind].default}
    IN  IF T = {} THEN subtype_rules[kind].fallback ELSE factors[First(T)][2]

\* ef: the value of the first catalog key that holds the subtype string, else
\* the value of the default subtype
FactorOf(catalog, kind, subtype) ==
    LET hits == FactorHits(catalog[kind], subtype)
    IN  IF hits = {} THEN GetDefault(catalog[kind], kind)
        ELSE catalog[kind][First(hits)][2]

\* Emissions with the refrigerant divisor ten times too large
EmissionsWrongDivisor(kind, amount, ef) ==
    IF kind = "refrigerant" THEN (amount * ef) \div 10 ELSE amount * ef * 10

\* amount * ef, and amount * ef / 1000 for a refrigerant, in units of 10^-4:
\* tenths times hundredths are thousandths, tenths times a GWP over 1000 are
\* 10^-4
Emissions(kind, amount, ef) ==
    IF kind = "refrigerant" THEN amount * ef ELSE amount * ef * 10

\* the operands the calculation string of a line names
Explanation(amount, ef, subtype, emissions) ==
    [amount |-> amount, ef |-> ef, subtype |-> subtype, emissions |-> emissions]

\* the calculation string of an item no branch computes
NoExplanation == Explanation(0, 0, "", 0)

\* lines 691-876 for one item: the line's emissions and calculation string,
\* or ValueError when float() of the stored amount raises
Calculate(catalog, item) ==
    IF item.type \in Kinds /\ HasKey(item.data, "amount")
    THEN LET amount == float(Get(item.data, "amount"))
             subtype == SubtypeOf(item.type, item.data)
             ef == FactorOf(catalog, item.type, subtype)
         IN  IF amount = ValueError THEN ValueError
             ELSE [emissions |-> Emissions(item.type, amount.n, ef),
                   calculation |-> Explanation(amount.n, ef, subtype,
                                               Emissions(item.type, amount.n, ef))]
    ELSE [emissions |-> 0, calculation |-> NoExplanation]

\* lines 680-686
empty_results ==
    [scope1 |-> [total |-> 0, categories |-> << >>],
     scope2 |-> [total |-> 0, categories |-> << >>],
     scope3 |-> [total |-> 0, categories |-> << >>],
     total |-> 0,
     line_items |-> << >>]

\* structured_data.items() flattened: the items in the order the two loops
\* of calculate_emissions visit them, each with its scope key
RECURSIVE Tagged(_, _)
Tagged(key, items) ==
    IF items = << >> THEN << >>
    ELSE << [scope |-> key, item |-> Head(items)] >> \o Tagged(key, Tail(items))

\* ItemsInOrder visiting the first scope a second time
ItemsInOrderScope1Twice(sd) ==
    Tagged("scope1", sd.scope1) \o Tagged("scope2", sd.scope2) \o Tagged("scope3", sd.scope3)
    \o Tagged("scope1", sd.scope1)

ItemsInOrder(sd) ==
    Tagged("scope1", sd.scope1) \o Tagged("scope2", sd.scope2) \o Tagged("scope3", sd.scope3)

\* AddCategory with = in place of +=
AddCategoryOverwrites(categories, emission_type, emissions) ==
    DictSet(categories, emission_type, emissions)

\* lines 878-882: results[scope]['categories'][emission_type] += emissions
AddCategory(categories, emission_type, emissions) ==
    DictSet(categories, emission_type,
            (IF HasKey(categories, emission_type) THEN Get(categories, emission_type) ELSE 0)
            + emissions)

\* AddLine without results['total'] += emissions
AddLineSkipsTotal(res, scope, item, line) ==
    [res EXCEPT
        ![scope].categories = AddCategory(@, item.type, line.emissions),
        ![scope].total = @ + line.emissions,
        !.line_items = Append(@, [scope |-> scope, type |-> item.type, data |-> item.data,
                                  emissions |-> line.emissions,
                                  calculation |-> line.calculation,
                                  original_row |-> item.original_row])]

\* AddLine putting the new line first
AddLinePrepends(res, scope, item, line) ==
    [res EXCEPT
        ![scope].categories = AddCategory(@, item.type, line.emissions),
        ![scope].total = @ + line.emissions,
        !.total = @ + line.emissions,
        !.line_items = << [scope |-> scope, type |-> item.type, data |-> item.data,
                           emissions |-> line.emissions,
                           calculation |-> line.calculation,
                           original_row |-> item.original_row] >> \o @]

\* lines 878-894: results after one item and its computed line
AddLine(res, scope, item, line) ==
    [res EXCEPT
        ![scope].categories = AddCategory(@, item.type, line.emissions),
        ![scope].total = @ + line.emissions,
        !.total = @ + line.emissions,
        !.line_items = Append(@, [scope |-> scope, type |-> item.type, data |-> item.data,
                                  emissions |-> line.emissions,
                                  calculation |-> line.calculation,
                                  original_row |-> item.original_row])]

\* lines 542-546
empty_structured_data == [scope1 |-> << >>, scope2 |-> << >>, scope3 |-> << >>]

RECURSIVE MapRows(_, _, _, _)
\* lines 542-664: the loop of map_to_emission_categories from row r on
MapRows(sd, table, mappings, r) ==
    IF sd = KeyError \/ r > NRows(table) THEN sd
    ELSE MapRows(MapRow(sd, table, mappings, r), table, mappings, r + 1)

\* map_to_emission_categories(df, column_mappings)
map_to_emission_categories(table, mappings) ==
    MapRows(empty_structured_data, table, mappings, 1)

RECURSIVE CalculateItems(_, _, _, _)
\* lines 689-896: the loops of calculate_emissions from the i-th item on
CalculateItems(res, catalog, items, i) ==
    IF i > Len(items) THEN res
    ELSE IF Calculate(catalog, items[i].item) = ValueError THEN ValueError
    ELSE CalculateItems(AddLine(res, items[i].scope, items[i].item,
                                Calculate(catalog, items[i].item)),
                        catalog, items, i + 1)

\* calculate_emissions(structured_data, emission_factors)
calculate_emissions(sd, catalog) ==
    CalculateItems(empty_results, catalog, ItemsInOrder(sd), 1)

\* the two calls of the page one after the other: the report, or the
\* exception that ended them
Pipeline(table, mappings, catalog) ==
    IF map_to_emission_categories(table, mappings) = KeyError THEN KeyError
    ELSE calculate_emissions(map_to_emission_categories(table, mappings), catalog)

(***************************************************************************)
(* The tables the pipeline is run on                                       *)
(***************************************************************************)
\* rows of the generated tables
MaxRows == 2

\* sample_data of the Smart Data Import page (the downloadable template)
SampleColumns == <<"Category", "Amount", "Unit", "Scope", "Location", "Date">>

SampleTemplate ==
    [columns |-> SampleColumns,
     rows |-> <<
        <<Str("Electricity"), Num(105000), Str("kWh"), Str("Scope 2"),
          Str("Main Office"), Str("2025-01-15")>>,
        <<Str("Diesel Fuel"), Num(4500), Str("liters"), Str("Scope 1"),
          Str("Warehouse"), Str("2025-01-20")>>,
        <<Str("Natural Gas"), Num(23000), Str("m³"), Str("Scope 1"),
          Str("Factory"), Str("2025-01-22")>>,
        <<Str("Company Car"), Num(150000), Str("km"), Str("Scope 1"),
          Str("Sales Fleet"), Str("2025-01-25")>>,
        <<Str("Refrigerant R-410A"), Num(25), Str("kg"), Str("Scope 1"),
          Str("HVAC Systems"), Str("2025-01-28")>>,
        <<Str("Business Flight"), Num(35000), Str("km"), Str("Scope 3"),
          Str("International"), Str("2025-02-05")>>,
        <<Str("Waste (Landfill)"), Num(7500), Str("kg"), Str("Scope 3"),
          Str("All Facilities"), Str("2025-02-10")>>,
        <<Str("Waste (Recycled)"), Num(5000), Str("kg"), Str("Scope 3"),
          Str("All Facilities"), Str("2025-02-10")>>,
        <<Str("Water"), Num(3500), Str("m³"), Str("Scope 3"),
          Str("All Facilities"), Str("2025-02-15")>> >>]

ScenarioColumns == <<"Category", "Amount", "Unit", "Scope">>

\* a long-haul flight named in the category cell
FlightTable ==
    [columns |-> ScenarioColumns,
     rows |-> << <<Str("Business Flight (Long-haul International)"), Num(35000),
                   Str("km"), Str("Scope 3")>> >>]

\* one kilogram of R-134a named in the category cell
R134aTable ==
    [columns |-> ScenarioColumns,
     rows |-> << <<Str("Refrigerant R-134a"), Num(10), Str("kg"), Str("Scope 1")>> >>]

\* a table whose text column has a name no pattern matches
LabelTable ==
    [columns |-> <<"Label", "Amount">>,
     rows |-> << <<Str("Diesel generator (Scope 1)"), Num(4500)>>,
                 <<Str("Grid power - scope 2"), Num(105000)>> >>]

\* a fuel row whose category cell is the only place that names a scope
ScopeTextTable ==
    [columns |-> <<"Category", "Amount">>,
     rows |-> << <<Str("Diesel generator - Scope 2"), Num(4500)>> >>]

\* a column that neither the patterns nor the contents classify
AssetTable ==
    [columns |-> <<"Asset", "Category", "Amount">>,
     rows |-> << <<Str("A-17"), Str("Diesel generator"), Num(4500)>> >>]

\* an amount cell that is not a number, in the first of two rows
MalformedTable ==
    [columns |-> <<"Category", "Amount">>,
     rows |-> << <<Str("Diesel generator"), Str("n/a")>>,
                 <<Str("Diesel generator"), Num(4500)>> >>]

\* two columns whose names match 'amount', the second holding text
TwoAmountTable ==
    [columns |-> <<"Category", "Amount", "Total">>,
     rows |-> << <<Str("Diesel generator"), Num(4500), Str("n/a")>> >>]

\* two columns whose names match 'amount', both holding numbers
TwoNumericAmountTable ==
    [columns |-> <<"Category", "Amount", "Total">>,
     rows |-> << <<Str("Diesel generator"), Num(4500), Num(9000)>> >>]

\* two columns whose names match a kind, fuel before transport
TwoKindTable ==
    [columns |-> <<"Fuel Type", "Vehicle", "Amount">>,
     rows |-> << <<Str("Diesel"), Str("Van"), Num(4500)>> >>]

\* a column whose name holds a unit token, and no amount column
UnitNameTable ==
    [columns |-> <<"Category", "Distance km">>,
     rows |-> << <<Str("Company car"), Num(150000)>> >>]

\* the generated tables: a kind column, a category column, an amount column
\* and a unit column, with up to MaxRows rows drawn from RowPool
PoolColumns == <<"Fuel Type", "Category", "Amount", "Unit">>

RowPool == {
    <<Str("Diesel"), Str("Generator (Scope 2)"), Num(10000), Str("litres")>>,
    <<Null, Str("Diesel generator - Scope 2"), Num(4500), Str("liters")>>,
    <<Null, Str("Refrigerant R-134a"), Num(10), Str("kg")>>,
    <<Null, Str("Flight (Long-haul)"), Num(35000), Str("km")>>,
    <<Str("Petrol"), Null, Null, Str("litres")>> }

RECURSIVE RowSeqs(_)
\* the sequences of at most n rows of RowPool
RowSeqs(n) ==
    IF n = 0 THEN {<< >>}
    ELSE RowSeqs(n - 1) \cup
         {Append(rs, r) : rs \in {q \in RowSeqs(n - 1) : Len(q) = n - 1}, r \in RowPool}

Tables ==
    {SampleTemplate, FlightTable, R134aTable, LabelTable, ScopeTextTable, AssetTable,
     MalformedTable, TwoAmountTable, TwoNumericAmountTable, TwoKindTable, UnitNameTable}
    \cup {[columns |-> PoolColumns, rows |-> rs] : rs \in RowSeqs(MaxRows)}

\* the catalogs calculate_emissions is called with: None (the default
\* factors are loaded) or the catalog of process_defra_emission_factors
Catalogs == {load_emission_factors, defra_factors}

(***************************************************************************)
(* The import: detect, review, map, calculate                              *)
(***************************************************************************)
Init ==
    /\ df \in Tables
    /\ column_mappings = << >>
    /\ structured_data = empty_structured_data
    /\ emission_factors = load_emission_factors
    /\ results = empty_results
    /\ pc = "uploaded"
    /\ pos = 0
    /\ ai_results = << >>
    /\ uploaded_file = Null
    /\ tmp_files = {}
    /\ dashboard = Null

\* "Process File" on a table without rows: the page reports that it could
\* not read data and calls nothing (lines 1340, 1351-1352)
RejectEmptyTable ==
    /\ pc = "uploaded"
    /\ NRows(df) = 0 \/ NCols(df) = 0
    /\ pc' = "unreadable"
    /\ UNCHANGED side_vars
    /\ UNCHANGED <<df, ai_results, column_mappings, structured_data, emission_factors,
                   results, pos>>

\* "Process File": detect_column_types(df, use_ai); use_ai stands for
\* `use_ai and has_openai_api()` of line 164, and ai_results keeps what the
\* adapter answered for each column it was asked about
DetectColumnTypesWith(use_ai) ==
    /\ pc = "uploaded"
    /\ NRows(df) > 0 /\ NCols(df) > 0
    /\ IF use_ai
       THEN \E outcomes \in [Unmatched(df) -> AiOutcomes] :
                /\ column_mappings' = detect_column_types_ai(df, outcomes)
                /\ ai_results' = outcomes
       ELSE /\ column_mappings' = detect_column_types(df)
            /\ ai_results' = << >>
    /\ pc' = "review"
    /\ UNCHANGED side_vars
    /\ UNCHANGED <<df, structured_data, emission_factors, results, pos>>

DetectColumnTypes == \E use_ai \in BOOLEAN : DetectColumnTypesWith(use_ai)

\* the mappings the review form can leave behind: the detected ones, or the
\* detected ones with the role and scope of one column overwritten
Reviewed(mappings) ==
    {mappings} \cup
    {[mappings EXCEPT ![c].category = role, ![c].scope = scope] :
        c \in 1..Len(mappings), role \in Roles, scope \in ScopeHints}

\* "Next: Preview Results": the form has written the caller's selections into
\* the mappings and map_to_emission_categories is entered (lines 541-554)
ConfirmMappingsFrom(selections) ==
    /\ pc = "review"
    /\ column_mappings' \in selections
    /\ structured_data' = empty_structured_data
    /\ pos' = 1
    /\ pc' = "mapping"
    /\ UNCHANGED side_vars
    /\ UNCHANGED <<df, ai_results, emission_factors, results>>

ConfirmMappings == ConfirmMappingsFrom(Reviewed(column_mappings))

\* one pass of the loop over df.iterrows() (lines 557-662); KeyError ends
\* the call without a result
MapNextRow ==
    /\ pc = "mapping"
    /\ pos <= NRows(df)
    /\ IF MapRow(structured_data, df, column_mappings, pos) = KeyError
       THEN /\ pc' = "raised"
            /\ UNCHANGED <<structured_data, pos>>
       ELSE /\ structured_data' = MapRow(structured_data, df, column_mappings, pos)
            /\ pos' = pos + 1
            /\ pc' = pc
    /\ UNCHANGED side_vars
    /\ UNCHANGED <<df, ai_results, column_mappings, emission_factors, results>>

\* BeginCalculate going on with the results of the call before
BeginCalculateKeepsResults ==
    /\ pc = "mapping"
    /\ pos > NRows(df)
    /\ emission_factors' \in Catalogs
    /\ pos' = 1
    /\ pc' = "calculating"
    /\ UNCHANGED side_vars
    /\ UNCHANGED <<df, ai_results, column_mappings, structured_data, results>>

\* map_to_emission_categories returns and calculate_emissions is entered
\* with a catalog (lines 664, 677-686)
BeginCalculate ==
    /\ pc = "mapping"
    /\ pos > NRows(df)
    /\ emission_factors' \in Catalogs
    /\ results' = empty_results
    /\ pos' = 1
    /\ pc' = "calculating"
    /\ UNCHANGED side_vars
    /\ UNCHANGED <<df, ai_results, column_mappings, structured_data>>

\* one pass of the loops over the items (lines 689-894); float() raising
\* ends the call without a report
CalculateNextItem ==
    /\ pc = "calculating"
    /\ pos <= Len(ItemsInOrder(structured_data))
    /\ LET next == ItemsInOrder(structured_data)[pos]
           line == Calculate(emission_factors, next.item)
       IN  IF line = ValueError
           THEN /\ pc' = "raised"
                /\ UNCHANGED <<results, pos>>
           ELSE /\ results' = AddLine(results, next.scope, next.item, line)
                /\ pos' = pos + 1
                /\ pc' = pc
    /\ UNCHANGED side_vars
    /\ UNCHANGED <<df, ai_results, column_mappings, structured_data, emission_factors>>

\* calculate_emissions returns results (line 896)
Return ==
    /\ pc = "calculating"
    /\ pos > Len(ItemsInOrder(structured_data))
    /\ pc' = "done"
    /\ UNCHANGED side_vars
    /\ UNCHANGED <<df, ai_results, column_mappings, structured_data, emission_factors, results, pos>>

Next ==
    \/ RejectEmptyTable
    \/ DetectColumnTypes
    \/ ConfirmMappings
    \/ MapNextRow
    \/ BeginCalculate
    \/ CalculateNextItem
    \/ Return

Spec == Init /\ [][Next]_vars

(***************************************************************************)
(* One import after another, with the adapter off and the mappings         *)
(* confirmed as detected                                                   *)
(***************************************************************************)
\* a new file is uploaded once a run has ended; what the earlier calls
\* returned stays where it is until a later call replaces it
UploadAgain ==
    /\ pc \in {"done", "raised", "unreadable"}
    /\ df' \in Tables
    /\ pc' = "uploaded"
    /\ pos' = 0
    /\ UNCHANGED side_vars
    /\ UNCHANGED <<column_mappings, structured_data, emission_factors, results, ai_results>>

NextRepeated ==
    \/ RejectEmptyTable
    \/ DetectColumnTypesWith(FALSE)
    \/ ConfirmMappingsFrom({column_mappings})
    \/ MapNextRow
    \/ BeginCalculate
    \/ CalculateNextItem
    \/ Return
    \/ UploadAgain

SpecRepeated == Init /\ [][NextRepeated]_vars

(***************************************************************************)
(* Back from the preview to the review form, and "Reset Mappings"          *)
(***************************************************************************)
\* the tables of this walk through the form
ReviewTables == {FlightTable, R134aTable, LabelTable, ScopeTextTable, UnitNameTable}

InitReview ==
    /\ Init
    /\ df \in ReviewTables

\* the selections of a caller who changes the scope of at most one column
ScopeSelections(mappings) ==
    {mappings} \cup
    {[mappings EXCEPT ![c].scope = scope] : c \in 1..Len(mappings), scope \in ScopeHints}

\* "Back to Mappings" on the preview: the form is shown again with the
\* mappings that were confirmed (line 1800)
BackToMapping ==
    /\ pc = "done"
    /\ pc' = "review"
    /\ UNCHANGED side_vars
    /\ UNCHANGED <<df, ai_results, column_mappings, structured_data, emission_factors,
                   results, pos>>

\* "Reset Mappings": detect_column_types is run again on the table and what
\* it returns replaces the mappings of the form (lines 1609-1614)
ResetMappingsWith(use_ai) ==
    /\ pc = "review"
    /\ IF use_ai
       THEN \E outcomes \in [Unmatched(df) -> AiOutcomes] :
                /\ column_mappings' = detect_column_types_ai(df, outcomes)
                /\ ai_results' = outcomes
       ELSE /\ column_mappings' = detect_column_types(df)
            /\ ai_results' = << >>
    /\ UNCHANGED side_vars
    /\ UNCHANGED <<df, structured_data, emission_factors, results, pos, pc>>

NextReview ==
    \/ DetectColumnTypesWith(FALSE)
    \/ ConfirmMappingsFrom(ScopeSelections(column_mappings))
    \/ MapNextRow
    \/ BeginCalculate
    \/ CalculateNextItem
    \/ Return
    \/ BackToMapping
    \/ ResetMappingsWith(FALSE)

SpecReview == InitReview /\ [][NextReview]_vars

(***************************************************************************)
(* read_excel_file: the upload is written to a temporary file and read     *)
(* from there                                                              *)
(***************************************************************************)
\* the three definitions of read_excel_file
Readers == {"ai_emission_mapper", "data_import", "page"}

\* the operations of one call that can raise
Operations == {"write", "read_default", "read_first", "read_all"}

\* the name NamedTemporaryFile gives the file of the call
tmp_path == "tmp.xlsx"

\* a local name that was never assigned
Unbound == [t |-> "unbound"]

\* a sheet without cells
EmptySheet == [columns |-> << >>, rows |-> << >>]

\* a sheet whose header cells carry blanks around the names
PaddedSheet ==
    [columns |-> <<" Category", "Amount ">>,
     rows |-> << <<Str("Diesel generator"), Num(4500)>> >>]

Sheets == {EmptySheet, ScopeTextTable, PaddedSheet}

MaxSheets == 2

Workbooks == UNION {[1..n -> Sheets] : n \in 1..MaxSheets}

\* an upload: the sheets of the workbook, the operations that raise when
\* they are applied to it, and the definition of read_excel_file called
Uploads ==
    [sheets : Workbooks, raises : SUBSET Operations, reader : Readers]

\* sheet_df.empty
IsEmpty(table) == NRows(table) = 0 \/ NCols(table) = 0

\* str.strip()
RECURSIVE strip(_)
strip(s) ==
    IF Len(s) = 0 THEN s
    ELSE IF SubSeq(s, 1, 1) = " " THEN strip(SubSeq(s, 2, Len(s)))
    ELSE IF SubSeq(s, Len(s), Len(s)) = " " THEN strip(SubSeq(s, 1, Len(s) - 1))
    ELSE s

\* df.columns = [str(col).strip() for col in df.columns]; the cells that
\* df.replace({np.nan: None}) touches are Null before and after
CleanColumns(table) ==
    [table EXCEPT !.columns = [c \in 1..NCols(table) |-> strip(table.columns[c])]]

\* the loop over dfs.items(): the first sheet that is not empty, and df
\* stays unassigned when there is none
FirstWithData(sheets) ==
    IF \E i \in 1..Len(sheets) : ~IsEmpty(sheets[i])
    THEN sheets[CHOOSE i \in 1..Len(sheets) :
                    /\ ~IsEmpty(sheets[i])
                    /\ \A j \in 1..(i - 1) : IsEmpty(sheets[j])]
    ELSE Unbound

InitRead ==
    /\ df = Unbound
    /\ column_mappings = << >>
    /\ structured_data = empty_structured_data
    /\ emission_factors = load_emission_factors
    /\ results = empty_results
    /\ pc = "called"
    /\ pos = 0
    /\ ai_results = << >>
    /\ uploaded_file \in Uploads
    /\ tmp_files = {}
    /\ dashboard = Null

\* NamedTemporaryFile(delete=False) creates the file and the bytes of the
\* upload are written to it; an exception goes to the outer handler, which
\* returns None
WriteTemp ==
    /\ pc = "called"
    /\ tmp_files' = tmp_files \cup {tmp_path}
    /\ IF "write" \in uploaded_file.raises
       THEN pc' = "returned" /\ df' = Null
       ELSE pc' = "read_default" /\ df' = df
    /\ UNCHANGED <<dashboard, uploaded_file, ai_results, column_mappings, structured_data,
                   emission_factors, results, pos>>

\* pd.read_excel(tmp_path): the first sheet, empty or not. In data_import
\* an exception goes to the outer handler, in the two others to the next
\* attempt
ReadDefault ==
    /\ pc = "read_default"
    /\ IF "read_default" \in uploaded_file.raises
       THEN IF uploaded_file.reader = "data_import"
            THEN pc' = "returned" /\ df' = Null
            ELSE pc' = "read_first" /\ df' = df
       ELSE pc' = "cleanup" /\ df' = uploaded_file.sheets[1]
    /\ UNCHANGED side_vars
    /\ UNCHANGED <<ai_results, column_mappings, structured_data, emission_factors,
                   results, pos>>

\* pd.read_excel(tmp_path, sheet_name=0)
ReadFirstSheet ==
    /\ pc = "read_first"
    /\ IF "read_first" \in uploaded_file.raises
       THEN pc' = "read_all" /\ df' = df
       ELSE pc' = "cleanup" /\ df' = uploaded_file.sheets[1]
    /\ UNCHANGED side_vars
    /\ UNCHANGED <<ai_results, column_mappings, structured_data, emission_factors,
                   results, pos>>

\* pd.read_excel(tmp_path, sheet_name=None) and the loop over the sheets;
\* the handler of this attempt returns None, and only the page's definition
\* removes the file before it does
ReadAllSheets ==
    /\ pc = "read_all"
    /\ IF "read_all" \in uploaded_file.raises \/ Len(uploaded_file.sheets) = 0
       THEN /\ pc' = "returned"
            /\ df' = Null
            /\ tmp_files' = IF uploaded_file.reader = "page"
                             THEN tmp_files \ {tmp_path} ELSE tmp_files
       ELSE /\ pc' = "cleanup"
            /\ df' = FirstWithData(uploaded_file.sheets)
            /\ tmp_files' = tmp_files
    /\ UNCHANGED <<dashboard, uploaded_file, ai_results, column_mappings, structured_data,
                   emission_factors, results, pos>>

\* os.unlink(tmp_path), then the column names are cleaned and df is
\* returned; data_import returns df as it was read. Reading the unassigned
\* df raises, and the outer handler returns None
CleanUp ==
    /\ pc = "cleanup"
    /\ tmp_files' = tmp_files \ {tmp_path}
    /\ df' = IF df = Unbound THEN Null
             ELSE IF uploaded_file.reader = "data_import" THEN df
             ELSE CleanColumns(df)
    /\ pc' = "returned"
    /\ UNCHANGED <<dashboard, uploaded_file, ai_results, column_mappings, structured_data,
                   emission_factors, results, pos>>

NextRead ==
    \/ WriteTemp
    \/ ReadDefault
    \/ ReadFirstSheet
    \/ ReadAllSheets
    \/ CleanUp

SpecRead == InitRead /\ [][NextRead]_vars

(***************************************************************************)
(* The dashboards: calculate_emissions of carbon_style_app, app and        *)
(* pages/1_Data_Input. Factors are in hundredths, emissions in thousandths *)
(***************************************************************************)
Dashboards == {"carbon_style_app", "app", "pages/1_Data_Input"}

\* the column types the dashboards' detection gives
DashboardTypes == {"date", "activity", "amount", "unit", "emission_factor", "scope"}

\* next((c for c, m in mappings.items() if m == type), None); 0 is None
ColumnOfType(mappings, type) ==
    LET T == {c \in 1..Len(mappings) : mappings[c] = type}
    IN  IF T = {} THEN 0 ELSE First(T)

\* the default factors of carbon_style_app and of app, in dictionary order
dashboard_defaults(module) ==
    IF module = "carbon_style_app"
    THEN << <<"electricity", 45>>, <<"natural_gas", 18>>, <<"vehicle_fuel", 230>>,
            <<"air_travel", 15>>, <<"rail_travel", 4>>, <<"waste", 50>>,
            <<"default", 100>> >>
    ELSE << <<"electricity", 45>>, <<"natural_gas", 18>>, <<"vehicle_fuel", 230>>,
            <<"air_travel", 15>>, <<"waste", 50>>, <<"default", 100>> >>

\* next((f for k, f in defaults.items() if k in low), defaults['default'])
DefaultFactor(module, low) ==
    LET defaults == dashboard_defaults(module)
        T == {i \in 1..Len(defaults) : Contains(low, defaults[i][1])}
    IN  IF T = {} THEN 100 ELSE defaults[First(T)][2]

\* str(actv): a missing activity column gives 'Unknown', an empty cell 'nan'
ActivityText(actv) == IF notna(actv) THEN str(actv) ELSE "nan"

\* ef: the numeric cell of the emission_factor column (tenths, taken to
\* hundredths), else the default factor of the activity
DashboardFactor(module, row, mappings, actv) ==
    LET efc == ColumnOfType(mappings, "emission_factor")
    IN  IF efc # 0 /\ row[efc].t = "num" THEN 10 * row[efc].n
        ELSE DefaultFactor(module, lower(ActivityText(actv)))

\* the scope name of a row: 'Scope 3' unless the cell of the scope column
\* holds a digit 1, 2 or 3; carbon_style_app names the first 'Scope 1
\* Emissions'
DashboardScope(module, row, mappings) ==
    LET scp == ColumnOfType(mappings, "scope")
    IN  IF scp = 0 \/ ~notna(row[scp]) THEN "Scope 3"
        ELSE LET s == lower(str(row[scp]))
             IN  IF Contains(s, "1")
                 THEN (IF module = "carbon_style_app" THEN "Scope 1 Emissions"
                       ELSE "Scope 1")
                 ELSE IF Contains(s, "2") THEN "Scope 2"
                 ELSE "Scope 3"

\* str(actv)[:50]
Truncate(text) == SubSeq(text, 1, IF Len(text) < 50 THEN Len(text) ELSE 50)

empty_dashboard_results ==
    [total_emissions |-> 0,
     by_scope |-> << [k |-> "Scope 1", v |-> 0], [k |-> "Scope 2", v |-> 0],
                     [k |-> "Scope 3", v |-> 0] >>,
     by_category |-> << >>,
     line_items |-> << >>]

\* what carbon_style_app returns when no column has type amount
dashboard_error == [error |-> "No amount column identified"]

\* the default factors of pages/1_Data_Input, in dictionary order
legacy_default_factors ==
    << <<"electricity", 45>>, <<"stationary_combustion", 18>>,
       <<"mobile_combustion", 230>>, <<"fugitive_emissions", 180000>>,
       <<"business_travel", 15>>, <<"employee_commuting", 15>>, <<"waste", 50>>,
       <<"purchased_goods", 80>>, <<"other", 100>> >>

\* factors.get(category, factors['other'])
LegacyFactor(category) ==
    LET T == {i \in 1..Len(legacy_default_factors) : legacy_default_factors[i][1] = category}
    IN  IF T = {} THEN 100 ELSE legacy_default_factors[First(T)][2]

\* f'Scope {int(scope_key[-1])}'
LegacyScopeName(key) == "Scope " \o SubSeq(key, Len(key), Len(key))

\* the rows a dashboard table is made of: activity, amount, scope
DashboardColumns == <<"Activity", "Amount", "Scope">>

DashboardRowPool == {
    <<Str("Electricity use"), Num(10000), Str("Scope 2")>>,
    <<Str("Diesel generator"), Num(4500), Str("Scope 1")>>,
    <<Str("Air travel"), Num(25000), Null>>,
    <<Str("Office waste"), Str("n/a"), Str("Scope 3")>>,
    <<Str("Purchased goods"), Num(300), Str("Upstream")>> }

DashboardTables ==
    {[columns |-> DashboardColumns, rows |-> rows] :
        rows \in UNION {[1..n -> DashboardRowPool] : n \in 0..MaxRows}}

\* the types a caller passes for the three columns
DashboardMappings == {
    <<"activity", "amount", "scope">>,
    <<"activity", "amount", "unit">>,
    <<"activity", "unit", "scope">> }

\* structured_data of pages/1_Data_Input flattened: the items in the order
\* the three loops visit them, each with its scope key and its category
LegacyItemPool == {
    [scope_key |-> "scope1", category |-> "mobile_combustion",
     item |-> [amount |-> 4500, description |-> "Diesel generator"]],
    [scope_key |-> "scope2", category |-> "electricity",
     item |-> [amount |-> 10000, description |-> "Electricity use"]],
    [scope_key |-> "scope3", category |-> "business_travel",
     item |-> [amount |-> 25000, description |-> "Air travel"]],
    [scope_key |-> "metadata", category |-> "other",
     item |-> [amount |-> 300, description |-> "Purchased goods"]] }

LegacyData == UNION {[1..n -> LegacyItemPool] : n \in 0..MaxRows}

InitDashboard ==
    /\ dashboard \in Dashboards
    /\ IF dashboard = "pages/1_Data_Input"
       THEN /\ df = Null
            /\ column_mappings = << >>
            /\ structured_data \in LegacyData
       ELSE /\ df \in DashboardTables
            /\ column_mappings \in DashboardMappings
            /\ structured_data = empty_structured_data
    /\ emission_factors = load_emission_factors
    /\ results = empty_dashboard_results
    /\ pc = "called"
    /\ pos = 0
    /\ ai_results = << >>
    /\ uploaded_file = Null
    /\ tmp_files = {}

\* the head of calculate_emissions(df, mappings): without an amount column
\* carbon_style_app returns the error and app the empty results
DashboardBegin ==
    /\ pc = "called"
    /\ dashboard \in {"carbon_style_app", "app"}
    /\ IF ColumnOfType(column_mappings, "amount") = 0
       THEN /\ pc' = "done"
            /\ results' = IF dashboard = "carbon_style_app" THEN dashboard_error
                           ELSE results
            /\ pos' = pos
       ELSE /\ pc' = "calculating"
            /\ results' = results
            /\ pos' = 1
    /\ UNCHANGED side_vars
    /\ UNCHANGED <<df, ai_results, column_mappings, structured_data, emission_factors>>

\* one pass of the loop over df.iterrows(): a row without a numeric amount
\* is skipped; total_emissions is raised before by_scope[scope], and a scope
\* name that is no key of by_scope raises KeyError
DashboardNextRow ==
    /\ pc = "calculating"
    /\ dashboard \in {"carbon_style_app", "app"}
    /\ pos <= NRows(df)
    /\ LET row == df.rows[pos]
           val == row[ColumnOfType(column_mappings, "amount")]
           act == ColumnOfType(column_mappings, "activity")
           actv == IF act = 0 THEN Str("Unknown") ELSE row[act]
           ef == DashboardFactor(dashboard, row, column_mappings, actv)
           emis == val.n * ef
           scope == DashboardScope(dashboard, row, column_mappings)
       IN  IF val.t # "num"
           THEN /\ results' = results
                /\ pos' = pos + 1
                /\ pc' = pc
           ELSE IF ~HasKey(results.by_scope, scope)
           THEN /\ results' = [results EXCEPT !.total_emissions = @ + emis]
                /\ pos' = pos
                /\ pc' = "raised"
           ELSE /\ results' =
                    [results EXCEPT
                        !.total_emissions = @ + emis,
                        !.by_scope = DictSet(@, scope, Get(@, scope) + emis),
                        !.by_category = AddCategory(@, Truncate(ActivityText(actv)), emis),
                        !.line_items = Append(@, [activity |-> actv, amount |-> val,
                                                  emission_factor |-> ef,
                                                  emissions |-> emis, scope |-> scope])]
                /\ pos' = pos + 1
                /\ pc' = pc
    /\ UNCHANGED side_vars
    /\ UNCHANGED <<df, ai_results, column_mappings, structured_data, emission_factors>>

\* calculate_emissions(structured_data) of pages/1_Data_Input is entered
LegacyBegin ==
    /\ pc = "called"
    /\ dashboard = "pages/1_Data_Input"
    /\ pc' = "calculating"
    /\ pos' = 1
    /\ UNCHANGED side_vars
    /\ UNCHANGED <<df, ai_results, column_mappings, structured_data, emission_factors,
                   results>>

\* one item of the loops of pages/1_Data_Input; the items of a key other
\* than scope1, scope2, scope3 are passed over
LegacyNextItem ==
    /\ pc = "calculating"
    /\ dashboard = "pages/1_Data_Input"
    /\ pos <= Len(structured_data)
    /\ LET next == structured_data[pos]
           ef == LegacyFactor(next.category)
           emis == next.item.amount * ef
           scope_name == LegacyScopeName(next.scope_key)
       IN  IF next.scope_key \notin {"scope1", "scope2", "scope3"}
           THEN results' = results
           ELSE results' =
                    [results EXCEPT
                        !.total_emissions = @ + emis,
                        !.by_scope = DictSet(@, scope_name, Get(@, scope_name) + emis),
                        !.by_category = AddCategory(@, next.category, emis),
                        !.line_items = Append(@, [scope |-> scope_name,
                                                  category |-> next.category,
                                                  description |-> next.item.description,
                                                  amount |-> next.item.amount,
                                                  emission_factor |-> ef,
                                                  emissions |-> emis,
                                                  date |-> Null])]
    /\ pos' = pos + 1
    /\ UNCHANGED side_vars
    /\ UNCHANGED <<df, ai_results, column_mappings, structured_data, emission_factors, pc>>

\* the loop is over and results is returned
DashboardReturn ==
    /\ pc = "calculating"
    /\ pos > (IF dashboard = "pages/1_Data_Input" THEN Len(structured_data)
              ELSE NRows(df))
    /\ pc' = "done"
    /\ UNCHANGED side_vars
    /\ UNCHANGED <<df, ai_results, column_mappings, structured_data, emission_factors,
                   results, pos>>

NextDashboard ==
    \/ DashboardBegin
    \/ DashboardNextRow
    \/ LegacyBegin
    \/ LegacyNextItem
    \/ DashboardReturn

SpecDashboard == InitDashboard /\ [][NextDashboard]_vars

(***************************************************************************)
(* Properties                                                              *)
(***************************************************************************)
RECURSIVE SumEmissions(_)
\* the sum of 'emissions' over a sequence of line items
SumEmissions(lines) ==
    IF lines = << >> THEN 0 ELSE Head(lines).emissions + SumEmissions(Tail(lines))

RECURSIVE SumValues(_)
\* the sum of the values of a dictionary
SumValues(d) == IF d = << >> THEN 0 ELSE Head(d).v + SumValues(Tail(d))

\* the line items of one scope
LinesOfScope(key) == SelectSeq(results.line_items, LAMBDA line : line.scope = key)

\* the scope keys under which lines are reported
ScopesWithLines == {results.line_items[i].scope : i \in 1..Len(results.line_items)}

\* the run used the mappings as detected and the default catalog
AsDetected ==
    /\ emission_factors = load_emission_factors
    /\ column_mappings = detect_column_types(df)

\* the items of structured_data, each with the scope key it is filed under
FiledItems == ItemsInOrder(structured_data)

\* C1: at every point of calculate_emissions, results['total'] is the sum of
\* the three scope totals and the sum of 'emissions' over the line items.
C1_TotalIsSumOfScopesAndLines ==
    /\ results.total = results.scope1.total + results.scope2.total + results.scope3.total
    /\ results.total = SumEmissions(results.line_items)

\* C1 witness: a returned report with lines in two scopes and a total above 0
C1_Witness ==
    /\ pc = "done"
    /\ Cardinality(ScopesWithLines) >= 2
    /\ results.total > 0

\* C2: for each scope, the scope total is the sum of 'emissions' over the
\* line items of that scope and the sum of the scope's per-kind totals.
C2_ScopeTotalIsSumOfLinesAndKinds ==
    \A s \in 1..Len(ScopeKeys) :
        LET key == ScopeKeys[s]
        IN  /\ results[key].total = SumEmissions(LinesOfScope(key))
            /\ results[key].total = SumValues(results[key].categories)

\* C2 witness: a returned report in which one scope holds two kinds and two
\* lines of one kind
C2_Witness ==
    /\ pc = "done"
    /\ \E s \in 1..Len(ScopeKeys) :
          /\ Len(results[ScopeKeys[s]].categories) >= 2
          /\ Len(LinesOfScope(ScopeKeys[s])) > Len(results[ScopeKeys[s]].categories)

\* C3: every item map_to_emission_categories files and every line item has a
\* kind of the canonical set and one scope of the three; no row is filed
\* under two scopes.
C3_LinesHaveOneScopeAndCanonicalKind ==
    /\ \A i \in 1..Len(FiledItems) :
          /\ FiledItems[i].scope \in {"scope1", "scope2", "scope3"}
          /\ FiledItems[i].item.type \in Kinds
          /\ \A j \in 1..Len(FiledItems) :
                FiledItems[j].item.original_row = FiledItems[i].item.original_row => j = i
    /\ \A i \in 1..Len(results.line_items) :
          /\ results.line_items[i].scope \in {"scope1", "scope2", "scope3"}
          /\ results.line_items[i].type \in Kinds

\* C3 witness: a returned report with a line, computed from mappings in which
\* the caller gave a column that is no kind column a scope
C3_Witness ==
    /\ pc = "done"
    /\ Len(results.line_items) >= 1
    /\ \E c \in 1..Len(column_mappings) :
          /\ column_mappings[c].category \notin Kinds
          /\ column_mappings[c].scope # NoScope
          /\ column_mappings[c] # DetectColumn(df, c)

\* the rows of the table that have a line item in the report
RowsWithLines == {results.line_items[i].original_row : i \in 1..Len(results.line_items)}

\* C4 (as claimed): the sample template, mapped as detected, gives 9 line
\* items, one per row, a non-zero total in each scope and a grand total equal
\* to the sum of the line emissions.
C4_SampleTemplateGivesNineLines ==
    (pc = "done" /\ df = SampleTemplate /\ AsDetected) =>
        /\ Len(results.line_items) = 9
        /\ RowsWithLines = 1..9
        /\ results.scope1.total # 0 /\ results.scope2.total # 0 /\ results.scope3.total # 0
        /\ results.total = SumEmissions(results.line_items)

\* C5 (as claimed): the long-haul flight row is computed with the catalog
\* subtype 'Flight (Long-haul)', factor 0.15, emissions 525.0, in scope 3.
C5_LongHaulFlightUsesItsFactor ==
    (pc = "done" /\ df = FlightTable /\ AsDetected) =>
        /\ Len(results.line_items) = 1
        /\ results.line_items[1].scope = "scope3"
        /\ results.line_items[1].type = "transport"
        /\ results.line_items[1].calculation.subtype = "Flight (Long-haul)"
        /\ results.line_items[1].calculation.ef = 15
        /\ results.line_items[1].emissions = 5250000

\* the scope N that 'scope N' in a category text names, NoScope when none
ScopeNamedIn(category_value) ==
    IF ~notna(category_value) THEN NoScope
    ELSE IF Contains(category_value.s, "scope 1") THEN 1
    ELSE IF Contains(category_value.s, "scope 2") THEN 2
    ELSE IF Contains(category_value.s, "scope 3") THEN 3
    ELSE NoScope

\* the scope hints of the columns that are non-null in a row
HintsOf(row) ==
    {column_mappings[c].scope : c \in {d \in 1..Len(column_mappings) :
        column_mappings[d].scope # NoScope /\ notna(row[d])}}

\* the scope hint of the first column that has one and is non-null in a row
FirstHint(row) ==
    column_mappings[First({c \in 1..Len(column_mappings) :
        column_mappings[c].scope # NoScope /\ notna(row[c])})].scope

\* C6 (as claimed): a filed row that has a non-null column with scope hint h
\* and a category text with 'scope N', N # h, is filed under scope N; without
\* 'scope N' in the text a column scope hint decides, whatever the kind.
C6_CategoryTextScopeBeatsColumnHint ==
    \A i \in 1..Len(FiledItems) :
        LET row == df.rows[FiledItems[i].item.original_row]
            named == ScopeNamedIn(CategoryValue(row, column_mappings))
        IN  /\ (named # NoScope /\ \E h \in HintsOf(row) : h # named) =>
                   FiledItems[i].scope = scope_key(named)
            /\ (named = NoScope /\ HintsOf(row) # {}) =>
                   FiledItems[i].scope = scope_key(FirstHint(row))

\* C7 (as claimed): when no mapping carries a scope hint and the category
\* text of a filed row holds 'scope 2', the row is filed under scope 2.
C7_OnlyScopeSignalInTextIsUsed ==
    \A i \in 1..Len(FiledItems) :
        LET row == df.rows[FiledItems[i].item.original_row]
            category_value == CategoryValue(row, column_mappings)
        IN  (/\ \A c \in 1..Len(column_mappings) : column_mappings[c].scope = NoScope
             /\ notna(category_value)
             /\ Contains(category_value.s, "scope 2")
             /\ ~Contains(category_value.s, "scope 1")
             /\ ~Contains(category_value.s, "scope 3")) =>
                FiledItems[i].scope = "scope2"

\* C8: every line's emissions are amount x factor, and amount x GWP / 1000
\* for a refrigerant (in the units of this module: tenths x hundredths x 10,
\* and tenths x GWP); on the sample template 2.5 kg of R-410A give 5.22 and
\* 10500 kWh give 5040.0.
C8_EmissionsAreAmountTimesFactor ==
    /\ \A i \in 1..Len(results.line_items) :
          LET line == results.line_items[i]
              amount == float(Get(line.data, "amount")).n
          IN  /\ line.calculation.amount = amount
              /\ line.type # "refrigerant" => line.emissions = amount * line.calculation.ef * 10
              /\ line.type = "refrigerant" => line.emissions = amount * line.calculation.ef
    /\ (pc = "done" /\ df = SampleTemplate /\ AsDetected) =>
          \A i \in 1..Len(results.line_items) :
              LET line == results.line_items[i]
              IN  /\ line.original_row = 5 =>
                        line.type = "refrigerant" /\ line.emissions = 52200
                  /\ line.original_row = 1 =>
                        line.type = "electricity" /\ line.emissions = 50400000

\* C8 witness: the report of the sample template, with its refrigerant line
\* and its electricity line
C8_Witness ==
    /\ pc = "done"
    /\ df = SampleTemplate
    /\ {1, 5} \subseteq RowsWithLines
    /\ AsDetected

\* C9 (as claimed): one kilogram of R-134a, named in the category cell, gives
\* 1 x 1430 / 1000 = 1.43: the GWP of R-134a is the factor used.
C9_R134aUsesItsGwp ==
    (pc = "done" /\ df = R134aTable /\ AsDetected) =>
        /\ Len(results.line_items) = 1
        /\ results.line_items[1].type = "refrigerant"
        /\ results.line_items[1].calculation.ef = 1430
        /\ results.line_items[1].emissions = 14300

\* C10 (as claimed): the factor of every line is the value the catalog in use
\* holds, under the line's kind, for the subtype the line's calculation
\* string names.
C10_FactorIsCatalogValueOfNamedSubtype ==
    \A i \in 1..Len(results.line_items) :
        LET line == results.line_items[i]
            factors == emission_factors[line.type]
        IN  \E f \in 1..Len(factors) :
                /\ factors[f][1] = line.calculation.subtype
                /\ factors[f][2] = line.calculation.ef

\* C11 (as claimed): whatever the table and the mappings, neither
\* map_to_emission_categories nor calculate_emissions ends with an exception.
C11_PipelineNeverRaises == pc # "raised"

\* no amount-role cell of the row is a number or a text float() accepts
NoCoercibleAmount(row, mappings) ==
    \A c \in ColumnsOf(mappings, "amount") : float(row[c]) = ValueError

\* C12: the pass of the mapping loop over a row whose amount-role cells are
\* all null or malformed raises nothing and leaves the records emitted so far
\* as they were.
C12_RowWithoutAmountIsDropped ==
    [][(pc = "mapping" /\ pos <= NRows(df)
            /\ NoCoercibleAmount(df.rows[pos], column_mappings))
        => (structured_data' = structured_data /\ pc' = "mapping" /\ pos' = pos + 1)]_vars

\* C12 witness: the mapping of a table whose first row holds a malformed
\* amount has ended with the record of the second row only
C12_Witness ==
    /\ pc = "mapping"
    /\ pos > NRows(df)
    /\ df = MalformedTable
    /\ NoCoercibleAmount(df.rows[1], column_mappings)
    /\ Len(FiledItems) = 1
    /\ FiledItems[1].item.original_row = 2

\* C13 (as claimed): with zero data rows, or with no column mapped to amount,
\* nothing is reported as an error, no record is emitted and the report is
\* the empty report.
C13_EmptyInputGivesEmptyReport ==
    (pc \in {"unreadable", "mapping", "calculating", "done", "raised"}
        /\ (NRows(df) = 0 \/ ColumnsOf(column_mappings, "amount") = {})) =>
        /\ pc \notin {"raised", "unreadable"}
        /\ structured_data = empty_structured_data
        /\ results = empty_results

\* the place of a scope key among the keys of structured_data
ScopeIndex(key) == CHOOSE k \in 1..3 : ScopeKeys[k] = key

\* C14 (as claimed): of any two lines of the report, the one of the earlier
\* row comes first, whatever their scopes.
C14_LinesFollowRowOrder ==
    \A i, j \in 1..Len(results.line_items) :
        i < j => results.line_items[i].original_row < results.line_items[j].original_row

\* C14 (amended): the lines are listed scope by scope, scope 1 first, and
\* within one scope in the order of their rows.
C14_LinesFollowScopeThenRowOrder ==
    \A i, j \in 1..Len(results.line_items) :
        i < j =>
            LET a == results.line_items[i]
                b == results.line_items[j]
            IN  \/ ScopeIndex(a.scope) < ScopeIndex(b.scope)
                \/ a.scope = b.scope /\ a.original_row < b.original_row

\* C14 witness: a finished report with two lines of one scope and with a
\* line of a later row listed before the line of an earlier row
C14_Witness ==
    /\ pc = "done"
    /\ \E i, j \in 1..Len(results.line_items) :
          /\ i < j
          /\ results.line_items[i].scope = results.line_items[j].scope
    /\ \E i, j \in 1..Len(results.line_items) :
          /\ i < j
          /\ results.line_items[i].original_row > results.line_items[j].original_row

\* C15: no row has two records or two lines, in one scope or across scopes,
\* so there are at most as many lines as rows.
C15_RowEmittedAtMostOnce ==
    pc \in {"mapping", "calculating", "done", "raised"} =>
        /\ \A i, j \in 1..Len(FiledItems) :
              FiledItems[i].item.original_row = FiledItems[j].item.original_row => i = j
        /\ \A i \in 1..Len(FiledItems) : FiledItems[i].item.original_row \in 1..NRows(df)
        /\ \A i, j \in 1..Len(results.line_items) :
              results.line_items[i].original_row = results.line_items[j].original_row => i = j
        /\ Len(results.line_items) <= Len(FiledItems)
        /\ Len(FiledItems) <= NRows(df)

\* C15 witness: a finished report of a table of which one row gave a line and
\* another gave none
C15_Witness ==
    /\ pc = "done"
    /\ NRows(df) >= 2
    /\ RowsWithLines # {}
    /\ RowsWithLines # 1..NRows(df)

\* C16: detect_column_types returns one mapping for every column; the
\* adapter is asked only about columns the first two steps left unmatched,
\* and a column for which it gave nothing, or something json.loads rejects,
\* is mapped to unknown with confidence 0.1.
C16_DetectionSwallowsAdapterFailure ==
    pc = "review" =>
        /\ Len(column_mappings) = NCols(df)
        /\ DOMAIN ai_results \subseteq Unmatched(df)
        /\ \A c \in DOMAIN ai_results :
              ai_results[c].t # "json" => column_mappings[c] = Mapping("unknown", 1, NoScope, Null)

\* C16 witness: detection has ended with a column for which the adapter's
\* answer could not be parsed
C16_Witness ==
    /\ pc = "review"
    /\ \E c \in DOMAIN ai_results :
          /\ ai_results[c] = AiUnparseable
          /\ column_mappings[c].category = "unknown"

\* C17 (as claimed): every mapping detection returns has a role of the
\* vocabulary, a scope hint among none, 1, 2, 3 and a confidence between 0
\* and 1, and an adapter answer naming another category is not used.
C17_MappingsStayInVocabulary ==
    pc = "review" =>
        /\ \A c \in 1..Len(column_mappings) :
              /\ column_mappings[c].category \in Roles
              /\ column_mappings[c].scope \in ScopeHints
              /\ column_mappings[c].confidence \in 0..10
        /\ \A c \in DOMAIN ai_results :
              (ai_results[c].t = "json" /\ ai_results[c].category \notin Roles)
                  => column_mappings[c] = NoMatch

\* C18 (as claimed): a run with the adapter on differs from the run with the
\* adapter off only in the mappings of the columns unmatched without it, and
\* has at least as many lines.
C18_AdapterOnlyAddsLines ==
    (pc = "done" /\ DOMAIN ai_results # {}
        /\ column_mappings = detect_column_types_ai(df, ai_results)) =>
        /\ \A c \in (1..NCols(df)) \ Unmatched(df) :
              column_mappings[c] = detect_column_types(df)[c]
        /\ Pipeline(df, detect_column_types(df), emission_factors) \notin {KeyError, ValueError}
              => Len(Pipeline(df, detect_column_types(df), emission_factors).line_items)
                     <= Len(results.line_items)

\* C19: with the adapter off, the report of a run is the report of its table
\* and catalog alone, whatever was imported before, and no call changes the
\* table, the mappings or the catalog it was given.
C19_ReportDependsOnInputsOnly ==
    /\ [](pc = "done" => results = Pipeline(df, detect_column_types(df), emission_factors))
    /\ [][(pc \in {"uploaded", "review", "mapping", "calculating"} => df' = df)
          /\ (pc \in {"review", "mapping", "calculating"} =>
                 column_mappings' = column_mappings)
          /\ (pc = "calculating" =>
                 emission_factors' = emission_factors /\ structured_data' = structured_data)]_vars

\* C19 witness: a later import has mapped the rows of its table while the
\* report of an earlier import of another table is still there
C19_Witness ==
    /\ pc = "mapping"
    /\ pos > NRows(df)
    /\ Len(FiledItems) > 0
    /\ Len(results.line_items) > 0
    /\ \A catalog \in Catalogs :
          results # Pipeline(df, detect_column_types(df), catalog)

\* the unit tokens of a column name and the unit hint each stands for
name_tokens == <<
    [token |-> "kwh", unit |-> "kWh"], [token |-> "mwh", unit |-> "MWh"],
    [token |-> "kg", unit |-> "kg"], [token |-> "ton", unit |-> "tonnes"],
    [token |-> "liter", unit |-> "litres"], [token |-> "litre", unit |-> "litres"],
    [token |-> "gallon", unit |-> "gallons"], [token |-> "km", unit |-> "km"],
    [token |-> "mile", unit |-> "miles"], [token |-> "m3", unit |-> "m³"] >>

\* C20 (as claimed): the mapping of a column whose name holds a unit token
\* carries the unit of that token, whatever the cells and the role.
C20_UnitTokenInNameGivesUnitHint ==
    pc = "review" =>
        \A c \in 1..NCols(df) : \A k \in 1..Len(name_tokens) :
            Contains(lower(df.columns[c]), name_tokens[k].token)
                => column_mappings[c].unit = Str(name_tokens[k].unit)

\* C21: once the caller has confirmed the mappings of a table, running the
\* classification again on that table leaves the confirmed mappings as they
\* are (a confirmed mapping is not replaced by a freshly detected one).
\* pos > 0 at the review form: the form is shown again after a preview, so
\* its mappings are the confirmed ones.
C21_RedetectionKeepsConfirmedMappings ==
    [][(pc = "review" /\ pos > 0 /\ pc' = "review")
            => column_mappings' = column_mappings]_vars

\* C22: when a call of read_excel_file has returned, on whichever path, the
\* temporary file created for the call has been deleted.
C22_TempFileDeletedOnReturn ==
    pc = "returned" => tmp_files = {}

\* C23: read_excel_file returns None exactly when no sheet of the workbook
\* gives a table with data (a workbook none of whose reads succeeds gives
\* none); otherwise it returns a table with data, the first sheet that has
\* some, also when that is not the first sheet of the workbook.
C23_ReturnsFirstSheetWithData ==
    (pc = "returned" /\ uploaded_file.reader = "ai_emission_mapper") =>
        LET sheets == uploaded_file.sheets
            unreadable == \/ "write" \in uploaded_file.raises
                          \/ {"read_default", "read_first", "read_all"}
                                \subseteq uploaded_file.raises
        IN  /\ df = Null <=> (unreadable \/ FirstWithData(sheets) = Unbound)
            /\ df # Null => /\ ~IsEmpty(df)
                            /\ df = CleanColumns(FirstWithData(sheets))

\* the sum of the emissions of the lines of a dashboard report
RECURSIVE SumOfLines(_)
SumOfLines(lines) ==
    IF lines = << >> THEN 0 ELSE Head(lines).emissions + SumOfLines(Tail(lines))

\* C24: in the report of each dashboard calculator by_scope has exactly the
\* keys 'Scope 1', 'Scope 2', 'Scope 3'; every row with an amount, whatever
\* its scope cell holds, is added to one of them (the call does not end on
\* the row), its line carries that key, and total_emissions is the sum of
\* the three by_scope values.
C24_DashboardReportHasThreeScopes ==
    /\ pc # "raised"
    /\ DOMAIN results = {"total_emissions", "by_scope", "by_category", "line_items"}
    /\ {results.by_scope[i].k : i \in 1..Len(results.by_scope)}
            = {"Scope 1", "Scope 2", "Scope 3"}
    /\ Len(results.by_scope) = 3
    /\ results.total_emissions = SumValues(results.by_scope)
    /\ \A i \in 1..Len(results.by_scope) :
            results.by_scope[i].v =
                SumOfLines(SelectSeq(results.line_items,
                                     LAMBDA line : line.scope = results.by_scope[i].k))

\* C25: the amount every line is computed from is the first cell of the
\* row, in column order, that belongs to an amount column and holds a
\* number, also when the row has several amount columns with cells.
C25_AmountIsFirstNumericAmountCell ==
    \A i \in 1..Len(results.line_items) :
        LET line == results.line_items[i]
        IN  line.calculation.amount
                = AmountValue(df.rows[line.original_row], column_mappings).n

\* the kind columns of the mappings whose cell in the row is not null
KindCells(row, mappings) ==
    {c \in 1..Len(mappings) : mappings[c].category \in Kinds /\ notna(row[c])}

\* C26: a row with one or more non-null kind columns gets the role of the
\* first of them as its kind, and that column's scope hint as the scope the
\* later steps start from, also when that hint is none.
C26_KindIsFirstKindColumn ==
    \A i \in 1..Len(FiledItems) :
        LET item == FiledItems[i].item
            row == df.rows[item.original_row]
            first == First(KindCells(row, column_mappings))
            category_value == CategoryValue(row, column_mappings)
        IN  KindCells(row, column_mappings) # {} =>
                /\ item.type = column_mappings[first].category
                /\ ScopeIndex(FiledItems[i].scope) =
                        TextScope(category_value,
                                  ColumnScope(row, column_mappings,
                                              column_mappings[first].scope))

\* C27: in every record the 'category' field is the lowercased first
\* category cell of the row, the 'unit' field the first unit cell, and the
\* kind flag is set: the cells copied into the record afterwards replace
\* none of them.
C27_RecordKeepsSelectedFields ==
    \A i \in 1..Len(FiledItems) :
        LET item == FiledItems[i].item
            row == df.rows[item.original_row]
        IN  /\ Get(item.data, "category") = CategoryValue(row, column_mappings)
            /\ Get(item.data, "unit") = UnitValue(row, column_mappings)
            /\ Get(item.data, item.type) = True

\* the patterns that find a hit in the lowercased name of column c
NameHits(table, c) ==
    {p \in 1..Len(patterns) : PatternSearch(p, lower(table.columns[c]))}

\* the adapter was asked about column c and its answer was a JSON object
Answered(c) == c \in DOMAIN ai_results /\ ai_results[c].t = "json"

\* C28: detection classifies every column by the first step that gives a
\* result: the first pattern, in table order, that hits the name (confidence
\* 0.8); else content inference; else the adapter's answer, when the adapter
\* is on and answers; else unknown with confidence 0.1. The adapter is asked
\* only about columns that neither the name nor the contents classified.
C28_DetectionFollowsPriorityOrder ==
    pc = "review" =>
        /\ \A c \in DOMAIN ai_results :
              /\ NameHits(df, c) = {}
              /\ infer_from_content(df.columns[c], Column(df, c)) = NoMatch
        /\ \A c \in 1..NCols(df) :
              LET hits == NameHits(df, c)
                  inferred == infer_from_content(df.columns[c], Column(df, c))
                  mapping == column_mappings[c]
              IN  /\ hits # {} =>
                        /\ mapping.category = patterns[First(hits)].category
                        /\ mapping.confidence = 8
                  /\ (hits = {} /\ inferred # NoMatch) => mapping = inferred
                  /\ (hits = {} /\ inferred = NoMatch /\ Answered(c)) =>
                        /\ mapping.category = ai_results[c].category
                        /\ mapping.confidence = ai_results[c].confidence
                  /\ (hits = {} /\ inferred = NoMatch /\ ~Answered(c)) =>
                        mapping = Mapping("unknown", 1, NoScope, Null)

\* C28 witness: detection has ended on a table with a column classified by
\* its name, and a column the adapter classified after name and contents
\* gave nothing
C28_Witness ==
    /\ pc = "review"
    /\ \E c \in 1..NCols(df) : NameHits(df, c) # {}
    /\ \E c \in 1..NCols(df) :
          /\ Answered(c)
          /\ column_mappings[c].category = ai_results[c].category

\* C29: every mapping detection returns for a kind role carries the default
\* scope of the kind; a mapping of role category carries a scope only when
\* content inference found 'scope N' in the cells; every other mapping has
\* no scope hint. This holds whichever step classified the column.
C29_DetectedScopeIsDefaultOfRole ==
    pc = "review" =>
        \A c \in 1..NCols(df) :
            LET mapping == column_mappings[c]
                inferred == infer_from_content(df.columns[c], Column(df, c))
            IN  /\ mapping.category \in Kinds =>
                      mapping.scope = get_scope_for_category(mapping.category)
                /\ (mapping.category = "category" /\ mapping.scope # NoScope) =>
                      (NameHits(df, c) = {} /\ inferred = mapping)
                /\ mapping.category \notin Kinds \cup {"category"} =>
                      mapping.scope = NoScope

\* C30: whichever catalog calculate_emissions is called with, a line whose
\* subtype string is held by no key of the catalog is computed with the value
\* the catalog holds for the default subtype of the line's kind.
C30_UnmatchedSubtypeUsesCatalogDefault ==
    \A i \in 1..Len(results.line_items) :
        LET line == results.line_items[i]
            factors == emission_factors[line.type]
        IN  FactorHits(factors, line.calculation.subtype) = {} =>
                \E f \in 1..Len(factors) :
                    /\ factors[f][1] = subtype_rules[line.type].default
                    /\ factors[f][2] = line.calculation.ef

====
